---- MODULE Spec2Model ----
(***************************************************************************)
(* Model of simpl_cli (wrapcli-termux): the rolling display buffer         *)
(* (LiveMarkdownStreamRenderer), the streaming session with cancellation   *)
(* and resume (StreamingUIManager, HybridShell.stream_ai_response /        *)
(* resume_cancelled_stream), the bounded context store (ContextManager),   *)
(* the chunk source reading the response line by line                      *)
(* (create_api_streaming_generator) and the interactive loop               *)
(* (HybridShell.run with its commands and key bindings).                   *)
(*                                                                         *)
(* Text is a sequence of characters; a character is a one-token string.    *)
(* Fixed literals of the source that no operation looks inside (the cursor *)
(* glyph, the "connecting" placeholder, the sentinels' tails) are single   *)
(* tokens.                                                                 *)
(***************************************************************************)
EXTENDS Integers, Sequences, FiniteSets, TLC

VARIABLES
  max_visible_lines,      \* LiveMarkdownStreamRenderer.max_visible_lines
  rolling_buffer,         \* LiveMarkdownStreamRenderer.rolling_buffer
  full_content,           \* LiveMarkdownStreamRenderer.full_content
  current_line,           \* LiveMarkdownStreamRenderer.current_line
  word_count,             \* LiveMarkdownStreamRenderer.word_count
  cancelled_stream_state, \* StreamingUIManager.cancelled_stream_state
  shell_context,          \* ContextManager.shell_context
  conversation_history,   \* ContextManager.conversation_history
  history_file,           \* the file at Config.HISTORY_FILE
  pc,                     \* position of the interactive loop / stream session
  resuming,               \* TRUE while the running exchange is a resumed one
  user_message,           \* local user_message of the running exchange
  messages,               \* local messages (the outbound request) of the running exchange
  response,               \* value returned by the last streaming call
  outcome,                \* how the last exchange ended: the return path taken
  source,                 \* the chunk source (the generator) of the running exchange
  fed,                    \* history: fragments passed to add_chunk since the last reset()
  inserted,               \* history: every entry ever passed to shell_context.append
  appended,               \* history: messages appended since the conversation was last cleared
  restored,               \* history: what the last load_history put in place (empty after a clear)
  since_restore,          \* history: number of messages appended since the last load or clear
  partial_at_cancel,      \* history: full_content at the moment of the last interrupt
  hist_before,            \* history: conversation_history when the running exchange started
  snap_before,            \* history: cancelled_stream_state when the running exchange started
  n_exchanges,            \* number of exchanges started (bounds the model)
  consumed,               \* history: the lines the chunk source has read from the response
  pending_chunk,          \* add_chunk's argument while a call of it is under way (empty otherwise)
  mode,                   \* HybridShell.mode
  exit_cause,             \* why run() left its loop ("none" while it runs)
  notice,                 \* the last panel the loop printed in answer to an input
  last_input,             \* history: the last input the loop handled
  n_inputs,               \* number of inputs handled (bounds the model)
  last_io,                \* history: the last save_history / load_history call and how it went
  saved                   \* history: the conversation the last successful save_history wrote

renderer_vars == <<max_visible_lines, rolling_buffer, full_content, current_line, word_count, fed>>
context_vars == <<shell_context, conversation_history, history_file, inserted, appended,
                  restored, since_restore>>
wire_vars == <<consumed, pending_chunk>>
loop_vars == <<mode, exit_cause, notice, last_input, n_inputs>>
io_vars == <<last_io, saved>>
session_vars == <<cancelled_stream_state, pc, resuming, user_message, messages, response,
                  outcome, source, partial_at_cancel, hist_before, snap_before, n_exchanges,
                  wire_vars, loop_vars, io_vars>>
conversation_vars == <<conversation_history, history_file, appended, restored, since_restore>>
shell_vars == <<shell_context, inserted>>
vars == <<renderer_vars, context_vars, session_vars>>

\* ------------------------------------------------------------------ bounds
MaxVisibleLines == 2      \* max_visible_lines ranges over 1..MaxVisibleLines in the buffer model
MaxBufferLen == 4         \* longest full_content fed to the buffer model
MaxFragmentLen == 2       \* longest fragment fed to the buffer model
MaxFragments == 3         \* add_chunk calls between two resets in the buffer model
MaxEpoch == 2             \* clock readings range over 1..MaxEpoch (the clock may step back)
MaxShellExtra == 2        \* the shell model inserts up to MAX_SHELL_CONTEXT + MaxShellExtra entries
MaxRendered == 3          \* shell entries inserted in the AI-context model
MaxTurns == 11            \* add_conversation calls in the conversation-history model
MaxExchanges == 2         \* exchanges (new or resumed) started in the session model
MaxStreamLen == 2         \* the chunk source stops yielding once full_content is this long
MaxWireLen == 3           \* lines the chunk source reads from one response
MaxWireExchanges == 1     \* exchanges started in the chunk-source model
MaxPersistTurns == 2      \* add_conversation calls in the persistence model
MaxPersistShell == 1      \* shell entries inserted in the persistence model
MaxInputs == 2            \* inputs (typed lines and key bindings) the loop model handles
MaxLoopFragments == 1     \* fragments one exchange of the loop model ingests
MaxRanked == 6            \* shell entries inserted in the ranking model
MaxResumeExchanges == 3   \* exchanges (new or resumed) started in the resume model
MaxResumeShell == 1       \* shell entries inserted in the resume model

\* ------------------------------------------------------------------ Config and literals
MAX_SHELL_CONTEXT == 10
MAX_CONVERSATION_HISTORY == 20
CONTEXT_FOR_AI == 5
PRIORITY_COUNT == 3          \* recent_contexts[:3]
LATEST_OUTPUT_LIMIT == 800   \* max_length of the entry ranked first
OTHER_OUTPUT_LIMIT == 400    \* max_length of the entries ranked 2 and 3
OLDER_OUTPUT_LIMIT == 100    \* entry['output'][:100]
DEFAULT_MAX_VISIBLE_LINES == 20

\* ------------------------------------------------------------------ text
NL == "\n"
SP == " "
Cursor == "CURSOR"                       \* the glyph appended to the line in progress
ConnectingText == "Connecting to AI..."  \* the placeholder's text
None == [none |-> TRUE]                  \* Python's None, where a dict may stand
NoFile == [exists |-> FALSE]             \* no file at Config.HISTORY_FILE

IsWhitespace(c) == c \in {NL, SP}

\* str.split(sep) for a one-character separator: n separators give n+1 segments.
RECURSIVE Split(_, _)
Split(s, sep) ==
  IF s = <<>> THEN << <<>> >>
  ELSE LET rest == Split(Tail(s), sep)
       IN IF Head(s) = sep
          THEN << <<>> >> \o rest
          ELSE << <<Head(s)>> \o Head(rest) >> \o Tail(rest)

\* len(s.split()): the number of maximal runs of non-whitespace characters.
RECURSIVE WordsFrom(_, _)
WordsFrom(s, inWord) ==
  IF s = <<>> THEN 0
  ELSE IF IsWhitespace(Head(s)) THEN WordsFrom(Tail(s), FALSE)
  ELSE (IF inWord THEN 0 ELSE 1) + WordsFrom(Tail(s), TRUE)

WordCount(s) == WordsFrom(s, FALSE)

\* sep.join(parts)
RECURSIVE Join(_, _)
Join(parts, sep) ==
  IF parts = <<>> THEN <<>>
  ELSE IF Len(parts) = 1 THEN Head(parts)
  ELSE Head(parts) \o <<sep>> \o Join(Tail(parts), sep)

\* seq[-n:] as Python slices it (seq[-0:] is the whole sequence).
PySuffix(seq, n) ==
  IF n = 0 \/ n >= Len(seq) THEN seq
  ELSE SubSeq(seq, Len(seq) - n + 1, Len(seq))

\* seq[:n] for n >= 0
PyPrefix(seq, n) == IF n >= Len(seq) THEN seq ELSE SubSeq(seq, 1, n)

\* not s.strip(): s holds whitespace only
IsBlank(s) == \A i \in 1..Len(s) : IsWhitespace(s[i])

RECURSIVE Concat(_)
Concat(ss) == IF ss = <<>> THEN <<>> ELSE Head(ss) \o Concat(Tail(ss))

Count(s, c) == Cardinality({i \in 1..Len(s) : s[i] = c})

\* ------------------------------------------------------------------ LiveMarkdownStreamRenderer
reset ==
  /\ rolling_buffer' = <<>>
  /\ full_content' = <<>>
  /\ current_line' = <<>>
  /\ word_count' = 0
  /\ fed' = <<>>
  /\ UNCHANGED max_visible_lines

\* faulty variant: the trailing trim left out
TrimBuffer_none(buf) == buf

\* the buffer after the trailing trim of add_chunk
TrimBuffer(buf) ==
  IF Len(buf) > max_visible_lines THEN PySuffix(buf, max_visible_lines) ELSE buf

\* faulty variant: the fragment put in front of the accumulated text
add_chunk_prepend(chunk) ==
  /\ full_content' = chunk \o full_content
  /\ word_count' = WordCount(full_content')
  /\ current_line' = current_line \o chunk
  /\ UNCHANGED <<rolling_buffer, max_visible_lines>>
  /\ fed' = Append(fed, chunk)

add_chunk(chunk) ==
  LET line == current_line \o chunk
      lines == Split(line, NL)
      hasNL == \E i \in 1..Len(line) : line[i] = NL
  IN /\ full_content' = full_content \o chunk
     /\ word_count' = WordCount(full_content')
     /\ current_line' = IF hasNL THEN lines[Len(lines)] ELSE line
     /\ rolling_buffer' =
          TrimBuffer(IF hasNL THEN rolling_buffer \o SubSeq(lines, 1, Len(lines) - 1)
                     ELSE rolling_buffer)
     /\ fed' = Append(fed, chunk)
     /\ UNCHANGED max_visible_lines

\* faulty variant: the placeholder given for an empty text only, not for a blank one
get_streaming_content_empty_only ==
  LET display_lines ==
        IF current_line # <<>> THEN Append(rolling_buffer, current_line \o <<Cursor>>)
        ELSE rolling_buffer
      buffer_content == Join(PySuffix(display_lines, max_visible_lines), NL)
  IN IF buffer_content = <<>> THEN <<ConnectingText, Cursor>> ELSE buffer_content

\* the text get_streaming_content hands to Markdown()
get_streaming_content ==
  LET display_lines ==
        IF current_line # <<>> THEN Append(rolling_buffer, current_line \o <<Cursor>>)
        ELSE rolling_buffer
      buffer_content == Join(PySuffix(display_lines, max_visible_lines), NL)
  IN IF IsBlank(buffer_content) THEN <<ConnectingText, Cursor>> ELSE buffer_content

get_final_content == full_content

get_word_count == word_count

\* ------------------------------------------------------------------ ContextManager: shell context
\* faulty variant: the entry with the smallest epoch_time evicted instead of the oldest
RECURSIVE DropMinEpoch(_)
DropMinEpoch(ctx) ==
  IF \A i \in 2..Len(ctx) : ctx[1].epoch_time <= ctx[i].epoch_time
  THEN Tail(ctx)
  ELSE <<Head(ctx)>> \o DropMinEpoch(Tail(ctx))

\* list.pop(0)
Pop0(ctx) == Tail(ctx)

\* now: the reading of datetime.now(); cwd: os.getcwd()
add_shell_context(command, output, now) ==
  LET context_entry == [timestamp |-> now, command |-> command, output |-> output,
                        cwd |-> "cwd", epoch_time |-> now]
      ctx == Append(shell_context, context_entry)
  IN /\ shell_context' = IF Len(ctx) > MAX_SHELL_CONTEXT THEN Pop0(ctx) ELSE ctx
     /\ inserted' = Append(inserted, context_entry)

clear_context ==
  /\ shell_context' = <<>>
  /\ inserted' = <<>>

\* sorted(..., key=epoch_time, reverse=True): stable, so entries with equal
\* epoch_time keep their order in the list
RECURSIVE InsertDesc(_, _)
InsertDesc(sorted, e) ==
  IF sorted = <<>> THEN <<e>>
  ELSE IF Head(sorted).epoch_time >= e.epoch_time
       THEN <<Head(sorted)>> \o InsertDesc(Tail(sorted), e)
       ELSE <<e>> \o sorted

\* faulty variant: the entries taken in the order of the list
SortedByEpochDesc_unsorted(ctx) == ctx

RECURSIVE SortedByEpochDesc(_)
SortedByEpochDesc(ctx) ==
  IF ctx = <<>> THEN <<>>
  ELSE InsertDesc(SortedByEpochDesc(SubSeq(ctx, 1, Len(ctx) - 1)), ctx[Len(ctx)])

\* ">>> LATEST:" if i == 0 else f">>> #{i+1}:"
PriorityMarker(i) == IF i = 0 THEN "LATEST" ELSE "#"

\* faulty variant: every priority entry cut at the limit of the entries ranked 2 and 3
MaxLength_same(i) == OTHER_OUTPUT_LIMIT

\* max_length = 800 if i == 0 else 400
MaxLength(i) == IF i = 0 THEN LATEST_OUTPUT_LIMIT ELSE OTHER_OUTPUT_LIMIT

\* the output of a priority entry: cut at max_length, with the marker
TruncateOutput(output, max_length) ==
  IF Len(output) > max_length
  THEN PyPrefix(output, max_length) \o <<"... (truncated)">>
  ELSE output

\* the parts appended for the priority entry of rank i (0-based, as enumerate);
\* every part starts with the literal that opens it
PriorityParts(i, entry) ==
  << <<">>> ", PriorityMarker(i), i + 1, entry.timestamp, entry.cwd>>,
     <<"Command: ", entry.command>> >>
  \o (IF entry.output # <<>>
      THEN << <<"Output: ">> \o TruncateOutput(entry.output, MaxLength(i)) >>
      ELSE <<>>)
  \o << <<"-", 50>> >>

\* f"[{timestamp}] {command} -> {output[:100]}..."
OlderPart(entry) ==
  <<"[", entry.timestamp, entry.command, "->">>
  \o PyPrefix(entry.output, OLDER_OUTPUT_LIMIT) \o <<"...">>

RECURSIVE PriorityBlock(_, _)
PriorityBlock(entries, i) ==
  IF entries = <<>> THEN <<>>
  ELSE PriorityParts(i, Head(entries)) \o PriorityBlock(Tail(entries), i + 1)

\* context_parts of build_context_for_ai, before the final join
context_parts ==
  LET recent_contexts == SortedByEpochDesc(shell_context)
      priority_contexts == PyPrefix(recent_contexts, PRIORITY_COUNT)
      older_contexts ==
        IF Len(recent_contexts) > PRIORITY_COUNT
        THEN SubSeq(recent_contexts, PRIORITY_COUNT + 1,
                    IF Len(recent_contexts) < CONTEXT_FOR_AI THEN Len(recent_contexts)
                    ELSE CONTEXT_FOR_AI)
        ELSE <<>>
  IN << <<"Recent shell activity (prioritized by recency):">> >>
     \o (IF priority_contexts # <<>>
         THEN << <<NL, "MOST RECENT COMMANDS:">> >> \o PriorityBlock(priority_contexts, 0)
         ELSE <<>>)
     \o (IF older_contexts # <<>>
         THEN << <<NL, "ADDITIONAL CONTEXT (older commands):">> >>
              \o [k \in 1..Len(older_contexts) |-> OlderPart(older_contexts[k])]
         ELSE <<>>)
     \o << <<NL, "NOTE: prioritize the LATEST/MOST RECENT commands above.">> >>

build_context_for_ai ==
  IF shell_context = <<>> THEN <<>> ELSE Join(context_parts, NL)

\* ------------------------------------------------------------------ ContextManager: conversation history
\* faulty variant: the trim to MAX_CONVERSATION_HISTORY left out
TrimHistory_none(history) == history

\* faulty variant: the trim keeps one message fewer than the cap
TrimHistory_short(history) ==
  IF Len(history) > MAX_CONVERSATION_HISTORY
  THEN PySuffix(history, MAX_CONVERSATION_HISTORY - 1)
  ELSE history

\* conversation_history[-MAX_CONVERSATION_HISTORY:] once the cap is exceeded
TrimHistory(history) ==
  IF Len(history) > MAX_CONVERSATION_HISTORY
  THEN PySuffix(history, MAX_CONVERSATION_HISTORY)
  ELSE history

add_conversation(um, ai_response) ==
  LET turn == << [role |-> "user", content |-> um],
                 [role |-> "assistant", content |-> ai_response] >>
  IN /\ conversation_history' = TrimHistory(conversation_history \o turn)
     /\ appended' = appended \o turn
     /\ since_restore' = since_restore + 2
     /\ UNCHANGED <<history_file, restored>>

clear_conversation ==
  /\ conversation_history' = <<>>
  /\ appended' = <<>>
  /\ restored' = <<>>
  /\ since_restore' = 0
  /\ UNCHANGED history_file

clear_all == clear_context /\ clear_conversation

\* json.dump of a list of {role, content} objects: one object text per message
JsonDump(history) ==
  [k \in 1..Len(history) |->
     <<"{", "role", history[k].role, "content", history[k].content, "}">>]

\* json.load of such a text
JsonLoad(text) ==
  [k \in 1..Len(text) |-> [role |-> text[k][3], content |-> text[k][5]]]

\* the file: NoFile when absent, else [exists, valid, text]; valid is FALSE for
\* a text json.load rejects (a write that failed after open() truncated the file).
\* result "ok": the dump succeeds; "not_opened": ensure_directories or open()
\* raises; "partial": the write raises after open() truncated the file
save_history(result) ==
  /\ history_file' =
       CASE result = "ok" ->
              [exists |-> TRUE, valid |-> TRUE, text |-> JsonDump(conversation_history)]
         [] result = "not_opened" -> history_file
         [] result = "partial" -> [exists |-> TRUE, valid |-> FALSE, text |-> <<>>]
  /\ UNCHANGED <<conversation_history, appended, restored, since_restore>>

\* faulty variant: a failed load leaves the history as it was
load_history_keep(readable) ==
  IF ~history_file.exists \/ ~(readable /\ history_file.valid)
  THEN UNCHANGED conversation_vars
  ELSE /\ conversation_history' = JsonLoad(history_file.text)
       /\ restored' = conversation_history'
       /\ since_restore' = 0
       /\ UNCHANGED <<history_file, appended>>

\* readable: FALSE when open() or read() raises
load_history(readable) ==
  IF ~history_file.exists
  THEN UNCHANGED conversation_vars
  ELSE LET loaded == IF readable /\ history_file.valid
                     THEN JsonLoad(history_file.text) ELSE <<>>
       IN /\ conversation_history' = loaded
          /\ restored' = loaded
          /\ since_restore' = 0
          /\ UNCHANGED <<history_file, appended>>

\* ------------------------------------------------------------------ StreamingUIManager
Warn == "WARN"     \* the warning sign that opens the cancellation sentinels
Cross == "CROSS"   \* the cross mark that opens the error sentinels

CancelledResponse == <<Warn, " Response cancelled">>
ResumeCancelledResponse == <<Warn, " Resume cancelled">>
ErrorResponse == <<Cross, " Error: ", "e">>
ResumeErrorResponse == <<Cross, " Resume Error: ", "e">>
ErrorText == <<"Error: ", "e">>   \* what the chunk source yields when the connection fails

\* str.startswith for a one-character prefix
StartsWith(s, c) == s # <<>> /\ s[1] = c

has_cancelled_stream == cancelled_stream_state # None

\* faulty variant: a snapshot already present keeps its request, only the text is renewed
save_cancelled_state_keep(um, partial_content, msgs) ==
  cancelled_stream_state' =
    IF cancelled_stream_state # None
    THEN [cancelled_stream_state EXCEPT !.partial_content = partial_content]
    ELSE [user_message |-> um, partial_content |-> partial_content, messages |-> msgs,
          word_count |-> get_word_count]

\* the timestamp field, a clock reading only shown to the user, is left out
save_cancelled_state(um, partial_content, msgs) ==
  cancelled_stream_state' =
    [user_message |-> um, partial_content |-> partial_content, messages |-> msgs,
     word_count |-> get_word_count]

\* faulty variant: the snapshot left in place
clear_cancelled_state_noop == UNCHANGED cancelled_stream_state

clear_cancelled_state == cancelled_stream_state' = None

\* faulty variant: the buffer reset but not seeded with the partial content
SeedRenderer_reset_only(partial_content) == reset

\* faulty variant: the word count left at the zero reset() gave it
SeedRenderer_stale_count(partial_content) ==
  /\ rolling_buffer' = <<>>
  /\ full_content' = partial_content
  /\ current_line' = <<>>
  /\ word_count' = 0
  /\ fed' = <<>>
  /\ UNCHANGED max_visible_lines

\* _resume_cancelled_stream: reset(), then full_content, current_line and
\* word_count set from the snapshot's partial content
SeedRenderer(partial_content) ==
  /\ rolling_buffer' = <<>>
  /\ full_content' = partial_content
  /\ current_line' = <<>>
  /\ word_count' = WordCount(partial_content)
  /\ fed' = <<>>
  /\ UNCHANGED max_visible_lines

\* ------------------------------------------------------------------ HybridShell: one exchange
\* the message list stream_ai_response sends
BuildMessages(um) ==
  (IF build_context_for_ai # <<>>
   THEN << [role |-> "system",
            content |-> <<"SYSTEM: ">> \o build_context_for_ai \o <<NL, NL, "Use this context">>] >>
   ELSE <<>>)
  \o conversation_history
  \o << [role |-> "user", content |-> um] >>

Streaming == pc \in {"connecting", "streaming"}

\* faulty variant: an exchange may start wherever the loop stands
AtPrompt_any == pc # "exited"

\* run() is blocked in session.prompt(): inputs and key bindings are taken
\* here and nowhere else
AtPrompt == pc = "prompt"

\* stream_ai_response(um) up to the first pull from the chunk source
StartExchange(um) ==
  /\ AtPrompt
  /\ user_message' = um
  /\ messages' = BuildMessages(um)
  /\ reset
  /\ pc' = "connecting"
  /\ resuming' = FALSE
  /\ source' = "open"
  /\ outcome' = "NONE"
  /\ response' = <<>>
  /\ hist_before' = conversation_history
  /\ snap_before' = cancelled_stream_state
  /\ n_exchanges' = n_exchanges + 1
  /\ UNCHANGED <<context_vars, cancelled_stream_state, partial_at_cancel>>

\* faulty variant: the snapshot dropped as soon as the resumed stream is set up
ResumeSnapshot_cleared == clear_cancelled_state

\* _resume_cancelled_stream leaves the snapshot in place while it streams
ResumeSnapshot == UNCHANGED cancelled_stream_state

\* faulty variant: the resumed request built anew from the present context
ResumeRequest_rebuilt == BuildMessages(cancelled_stream_state.user_message)

\* api_streaming_func of resume_cancelled_stream: the stored message list
ResumeRequest == cancelled_stream_state.messages

\* resume_cancelled_stream() with a snapshot, up to the first pull
StartResume ==
  /\ AtPrompt
  /\ has_cancelled_stream
  /\ user_message' = cancelled_stream_state.user_message
  /\ messages' = ResumeRequest
  /\ SeedRenderer(cancelled_stream_state.partial_content)
  /\ ResumeSnapshot
  /\ pc' = "connecting"
  /\ resuming' = TRUE
  /\ source' = "open"
  /\ outcome' = "NONE"
  /\ response' = <<>>
  /\ hist_before' = conversation_history
  /\ snap_before' = cancelled_stream_state
  /\ n_exchanges' = n_exchanges + 1
  /\ UNCHANGED <<context_vars, partial_at_cancel>>

\* one iteration of the pull loop: the chunk source yields a content delta
PullChunk(chunk) ==
  /\ Streaming
  /\ source = "open"
  /\ add_chunk(chunk)
  /\ pc' = "streaming"
  /\ UNCHANGED <<context_vars, cancelled_stream_state, resuming, user_message, messages,
                 response, outcome, source, partial_at_cancel, hist_before, snap_before,
                 n_exchanges, wire_vars, loop_vars, io_vars>>

\* create_api_streaming_generator: requests raises (opening the stream, reading
\* it, or the timeout); the generator catches it and yields the error text as a
\* fragment, after which it is exhausted
SourceFault ==
  /\ Streaming
  /\ source = "open"
  /\ add_chunk(ErrorText)
  /\ pc' = "streaming"
  /\ source' = "failed"
  /\ UNCHANGED <<context_vars, cancelled_stream_state, resuming, user_message, messages,
                 response, outcome, partial_at_cancel, hist_before, snap_before, n_exchanges,
                 wire_vars, loop_vars, io_vars>>

\* the caller's test on the value the streaming call returned
IsTurn(r) == r # <<>> /\ ~StartsWith(r, Cross) /\ ~StartsWith(r, Warn)

\* the chunk source is exhausted: the streaming call returns full_content and
\* the caller files it (a text equal to the cancellation sentinel is filed as a
\* cancellation)
StreamEnd ==
  /\ Streaming
  /\ response' = full_content
  /\ outcome' = "COMPLETE"
  /\ pc' = "prompt"
  /\ IF resuming
     THEN /\ clear_cancelled_state
          /\ IF IsTurn(full_content)
             THEN add_conversation(user_message, full_content)
             ELSE UNCHANGED conversation_vars
     ELSE IF full_content = CancelledResponse
     THEN /\ save_cancelled_state(user_message, full_content, messages)
          /\ UNCHANGED conversation_vars
     ELSE /\ UNCHANGED cancelled_stream_state
          /\ IF IsTurn(full_content)
             THEN add_conversation(user_message, full_content)
             ELSE UNCHANGED conversation_vars
  /\ UNCHANGED <<renderer_vars, shell_vars, resuming, user_message, messages, source,
                 partial_at_cancel, hist_before, snap_before, n_exchanges,
                 wire_vars, loop_vars, io_vars>>

\* faulty variant: nothing is saved for an exchange interrupted before any text
Interrupt_unless_empty ==
  /\ Streaming
  /\ response' = IF resuming THEN ResumeCancelledResponse ELSE CancelledResponse
  /\ outcome' = "CANCELLED"
  /\ pc' = "prompt"
  /\ IF full_content = <<>>
     THEN UNCHANGED cancelled_stream_state
     ELSE save_cancelled_state(user_message, full_content, messages)
  /\ partial_at_cancel' = full_content
  /\ UNCHANGED <<renderer_vars, context_vars, resuming, user_message, messages, source,
                 hist_before, snap_before, n_exchanges, wire_vars, loop_vars, io_vars>>

\* KeyboardInterrupt inside the pull loop: the streaming call returns its
\* sentinel; a new exchange's caller then saves the snapshot, a resumed stream
\* saves it itself before returning
Interrupt ==
  /\ Streaming
  /\ response' = IF resuming THEN ResumeCancelledResponse ELSE CancelledResponse
  /\ outcome' = "CANCELLED"
  /\ pc' = "prompt"
  /\ save_cancelled_state(user_message, full_content, messages)
  /\ partial_at_cancel' = full_content
  /\ UNCHANGED <<renderer_vars, context_vars, resuming, user_message, messages, source,
                 hist_before, snap_before, n_exchanges, wire_vars, loop_vars, io_vars>>

\* faulty variant: the error path drops the snapshot
DisplayFault_clears ==
  /\ Streaming
  /\ response' = IF resuming THEN ResumeErrorResponse ELSE ErrorResponse
  /\ outcome' = "ERROR"
  /\ pc' = "prompt"
  /\ clear_cancelled_state
  /\ UNCHANGED <<renderer_vars, context_vars, resuming, user_message,
                 messages, source, partial_at_cancel, hist_before, snap_before, n_exchanges,
                 wire_vars, loop_vars, io_vars>>

\* an exception other than KeyboardInterrupt raised inside the streaming call's
\* try block (the display fails): the call returns its error sentinel
DisplayFault ==
  /\ Streaming
  /\ response' = IF resuming THEN ResumeErrorResponse ELSE ErrorResponse
  /\ outcome' = "ERROR"
  /\ pc' = "prompt"
  /\ UNCHANGED <<renderer_vars, context_vars, cancelled_stream_state, resuming, user_message,
                 messages, source, partial_at_cancel, hist_before, snap_before, n_exchanges,
                 wire_vars, loop_vars, io_vars>>

\* ------------------------------------------------------------------ the exchange, statement by statement
\* add_chunk(chunk) up to and including its first statement, full_content += chunk
AddChunkBegin(chunk) ==
  /\ Streaming
  /\ source = "open"
  /\ full_content' = full_content \o chunk
  /\ pending_chunk' = chunk
  /\ pc' = "adding"
  /\ UNCHANGED <<max_visible_lines, rolling_buffer, current_line, word_count, fed, context_vars,
                 cancelled_stream_state, resuming, user_message, messages, response, outcome,
                 source, partial_at_cancel, hist_before, snap_before, n_exchanges, consumed,
                 loop_vars, io_vars>>

\* the remaining statements of add_chunk: current_line, word_count and the
\* rolling buffer brought up to date
AddChunkFinish ==
  LET line == current_line \o pending_chunk
      lines == Split(line, NL)
      hasNL == \E i \in 1..Len(line) : line[i] = NL
  IN /\ pc = "adding"
     /\ word_count' = WordCount(full_content)
     /\ current_line' = IF hasNL THEN lines[Len(lines)] ELSE line
     /\ rolling_buffer' =
          TrimBuffer(IF hasNL THEN rolling_buffer \o SubSeq(lines, 1, Len(lines) - 1)
                     ELSE rolling_buffer)
     /\ fed' = Append(fed, pending_chunk)
     /\ pending_chunk' = <<>>
     /\ pc' = "streaming"
     /\ UNCHANGED <<max_visible_lines, full_content, context_vars, cancelled_stream_state,
                    resuming, user_message, messages, response, outcome, source,
                    partial_at_cancel, hist_before, snap_before, n_exchanges, consumed,
                    loop_vars, io_vars>>

\* KeyboardInterrupt inside the streaming call's try block, between two pulls
\* or between two statements of add_chunk, up to the call's return statement:
\* stream_ai_response_with_live_markdown returns its sentinel and saves
\* nothing, stream_ai_response_with_resume saves the snapshot and then returns
SessionInterrupted ==
  /\ pc \in {"connecting", "streaming", "adding"}
  /\ response' = IF resuming THEN ResumeCancelledResponse ELSE CancelledResponse
  /\ outcome' = "CANCELLED"
  /\ pc' = "returned"
  /\ IF resuming
     THEN save_cancelled_state(user_message, full_content, messages)
     ELSE UNCHANGED cancelled_stream_state
  /\ partial_at_cancel' = full_content
  /\ pending_chunk' = <<>>
  /\ UNCHANGED <<renderer_vars, context_vars, resuming, user_message, messages, source,
                 hist_before, snap_before, n_exchanges, consumed, loop_vars, io_vars>>

\* faulty variant: the caller goes back to the prompt without saving anything
CallerFiles_forgets ==
  /\ pc = "returned"
  /\ pc' = "prompt"
  /\ UNCHANGED <<renderer_vars, context_vars, cancelled_stream_state, resuming, user_message,
                 messages, response, outcome, source, partial_at_cancel, hist_before,
                 snap_before, n_exchanges, wire_vars, loop_vars, io_vars>>

\* the caller once the streaming call has returned a cancellation sentinel:
\* stream_ai_response recognises its sentinel and saves the snapshot,
\* resume_cancelled_stream finds a text that starts with the warning sign and
\* files nothing
CallerFiles ==
  /\ pc = "returned"
  /\ IF response = CancelledResponse
     THEN save_cancelled_state(user_message, full_content, messages)
     ELSE UNCHANGED cancelled_stream_state
  /\ pc' = "prompt"
  /\ UNCHANGED <<renderer_vars, context_vars, resuming, user_message, messages, response,
                 outcome, source, partial_at_cancel, hist_before, snap_before, n_exchanges,
                 wire_vars, loop_vars, io_vars>>

\* ------------------------------------------------------------------ HybridShell: the chunk source
\* A JSON value as json.loads returns it: a dict, a list, a str, an int or None.
JObject(fields) == [type |-> "object", fields |-> fields]
JArray(items) == [type |-> "array", items |-> items]
JString(text) == [type |-> "string", text |-> text]
JNumber == [type |-> "number"]
JNull == [type |-> "null"]
EmptyObject == JObject([key \in {} |-> JNull])

\* what one pass of the loop body over a line comes to
Skipped == [act |-> "skip", content |-> <<>>]
\* faulty variant: the terminator passed over like any other line without a fragment
Done_ignored == [act |-> "skip", content |-> <<>>]
Done == [act |-> "done", content |-> <<>>]
Raised == [act |-> "raise", content |-> <<>>]
Yielded(content) == [act |-> "yield", content |-> content]

\* key in v, for the values `in` accepts
HasKey(v, key) ==
  CASE v.type = "object" -> key \in DOMAIN v.fields
    [] v.type = "array" -> \E i \in 1..Len(v.items) : v.items[i] = JString(<<key>>)
    [] v.type = "string" -> \E i \in 1..Len(v.text) : v.text[i] = key

\* len(v), for the values len() accepts
PyLen(v) ==
  CASE v.type = "object" -> Cardinality(DOMAIN v.fields)
    [] v.type = "array" -> Len(v.items)
    [] v.type = "string" -> Len(v.text)

\* d.get(key, default) of a dict
DictGet(d, key, default) == IF key \in DOMAIN d.fields THEN d.fields[key] ELSE default

\* bool(v)
Truthy(v) ==
  CASE v.type = "object" -> DOMAIN v.fields # {}
    [] v.type = "array" -> v.items # <<>>
    [] v.type = "string" -> v.text # <<>>
    [] v.type = "number" -> TRUE
    [] v.type = "null" -> FALSE

\* the body of the inner try for the value json.loads returned; every raise
\* here is a TypeError, KeyError or AttributeError, none of them the
\* JSONDecodeError the inner except names
DeltaContent(chunk_data) ==
  IF chunk_data.type \in {"number", "null"} THEN Raised          \* 'choices' in 5
  ELSE IF ~HasKey(chunk_data, "choices") THEN Skipped
  ELSE IF chunk_data.type # "object" THEN Raised                 \* a list or str indexed by 'choices'
  ELSE LET choices == chunk_data.fields["choices"]
       IN IF choices.type \in {"number", "null"} THEN Raised     \* len(5)
          ELSE IF ~(PyLen(choices) > 0) THEN Skipped
          ELSE IF choices.type = "object" THEN Raised            \* {...}[0]
          ELSE LET first == IF choices.type = "array" THEN choices.items[1]
                            ELSE JString(<<choices.text[1]>>)
               IN IF first.type # "object" THEN Raised           \* no .get
                  ELSE LET delta == DictGet(first, "delta", EmptyObject)
                       IN IF delta.type # "object" THEN Raised   \* no .get
                          ELSE LET content == DictGet(delta, "content", JString(<<>>))
                               IN IF Truthy(content) THEN Yielded(content) ELSE Skipped

\* A line of response.iter_lines(): [empty, utf8, prefix, body, value], where
\* utf8 tells whether the bytes decode, prefix whether the text starts with
\* 'data: ', body is what follows the prefix ("[DONE]", "invalid" for a text
\* json.loads rejects, "json" otherwise) and value what json.loads returns.
\* One pass of the for loop over such a line:
ReadLine(line) ==
  IF line.empty THEN Skipped
  ELSE IF ~line.utf8 THEN Raised                                 \* UnicodeDecodeError
  ELSE IF ~line.prefix THEN Skipped
  ELSE IF line.body = "[DONE]" THEN Done
  ELSE IF line.body = "invalid" THEN Skipped                     \* JSONDecodeError
  ELSE DeltaContent(line.value)

\* one line read by the chunk source of the running exchange; a raise is caught
\* by the outer except, which yields the error text and ends the generator
PullLine(line) ==
  LET r == ReadLine(line)
  IN /\ Streaming
     /\ source = "open"
     /\ consumed' = Append(consumed, line)
     /\ UNCHANGED pending_chunk
     /\ CASE r.act = "yield" ->
               /\ add_chunk(r.content.text)
               /\ pc' = "streaming"
               /\ UNCHANGED source
          [] r.act = "raise" ->
               /\ add_chunk(ErrorText)
               /\ pc' = "streaming"
               /\ source' = "failed"
          [] r.act = "done" ->
               /\ source' = "done"
               /\ UNCHANGED <<renderer_vars, pc>>
          [] r.act = "skip" -> UNCHANGED <<renderer_vars, pc, source>>
     /\ UNCHANGED <<context_vars, cancelled_stream_state, resuming, user_message, messages,
                    response, outcome, partial_at_cancel, hist_before, snap_before,
                    n_exchanges, loop_vars, io_vars>>

\* ------------------------------------------------------------------ HybridShell: the interactive loop
\* an exchange or a shell command is under way
Busy == pc \in {"connecting", "streaming", "shell"}

\* run() takes an input at the prompt: a typed line, or a key binding that acts
TakeInput(text) ==
  /\ AtPrompt
  /\ n_inputs' = n_inputs + 1
  /\ last_input' = [text |-> text, mode |-> mode]
  /\ UNCHANGED mode

\* run() leaves its loop; the finally clause saves the history
LeaveLoop(cause) ==
  /\ pc' = "exited"
  /\ exit_cause' = cause
  /\ \E result \in {"ok", "not_opened", "partial"} : save_history(result)

\* what the loop leaves alone when it only prints a panel
OnlyNotice(text) ==
  /\ notice' = text
  /\ UNCHANGED <<renderer_vars, cancelled_stream_state, pc, resuming, user_message, messages,
                 response, outcome, source, partial_at_cancel, hist_before, snap_before,
                 n_exchanges, wire_vars, io_vars, exit_cause>>

\* faulty variant: without a snapshot the resume falls through to a fresh
\* stream, which resets the buffer before it fails
NoResume_fallthrough ==
  /\ reset
  /\ notice' = "no_resume"
  /\ UNCHANGED <<context_vars, cancelled_stream_state, pc, resuming, user_message, messages,
                 response, outcome, source, partial_at_cancel, hist_before, snap_before,
                 n_exchanges, wire_vars, io_vars, exit_cause>>

\* resume_cancelled_stream() without a snapshot: the panel, then return
NoResume ==
  /\ OnlyNotice("no_resume")
  /\ UNCHANGED context_vars

\* resume_cancelled_stream(), up to the first pull when there is a snapshot
resume_cancelled_stream ==
  IF has_cancelled_stream
  THEN /\ StartResume
       /\ notice' = "resuming"
       /\ UNCHANGED <<wire_vars, io_vars, exit_cause>>
  ELSE NoResume

KeySwitchToAI ==
  /\ AtPrompt
  /\ mode' = "ai"
  /\ UNCHANGED <<renderer_vars, context_vars, cancelled_stream_state, pc, resuming, user_message,
                 messages, response, outcome, source, partial_at_cancel, hist_before,
                 snap_before, n_exchanges, wire_vars, io_vars, exit_cause, notice, last_input,
                 n_inputs>>

KeySwitchToShell ==
  /\ AtPrompt
  /\ mode' = "shell"
  /\ UNCHANGED <<renderer_vars, context_vars, cancelled_stream_state, pc, resuming, user_message,
                 messages, response, outcome, source, partial_at_cancel, hist_before,
                 snap_before, n_exchanges, wire_vars, io_vars, exit_cause, notice, last_input,
                 n_inputs>>

\* Alt+C
KeyClear ==
  /\ TakeInput("Alt+C")
  /\ clear_all
  /\ OnlyNotice("context_cleared")

\* Alt+Z
KeyResume ==
  /\ TakeInput("Alt+Z")
  /\ resume_cancelled_stream

\* handle_ai_special_commands: "clear0"
AIClear0 ==
  /\ mode = "ai"
  /\ TakeInput("clear0")
  /\ clear_conversation
  /\ OnlyNotice("conversation_cleared")
  /\ UNCHANGED shell_vars

\* handle_ai_special_commands: "clear"
AIClear ==
  /\ mode = "ai"
  /\ TakeInput("clear")
  /\ clear_all
  /\ OnlyNotice("context_cleared")

\* handle_ai_special_commands: "context"
AIContext ==
  /\ mode = "ai"
  /\ TakeInput("context")
  /\ OnlyNotice("context_table")
  /\ UNCHANGED context_vars

\* handle_ai_special_commands: "resume"
AIResume ==
  /\ mode = "ai"
  /\ TakeInput("resume")
  /\ resume_cancelled_stream

\* handle_ai_special_commands: "cancelstate"
AICancelState ==
  /\ mode = "ai"
  /\ TakeInput("cancelstate")
  /\ OnlyNotice(IF has_cancelled_stream THEN "cancel_info" ELSE "no_cancel_state")
  /\ UNCHANGED context_vars

\* any other line typed in AI mode goes to stream_ai_response
AIAsk(text) ==
  /\ mode = "ai"
  /\ TakeInput(text)
  /\ StartExchange(<<text>>)
  /\ notice' = "none"
  /\ UNCHANGED <<wire_vars, io_vars, exit_cause>>

\* execute_shell_command("exit") returns "exit" and run() breaks
ShellExit ==
  /\ mode = "shell"
  /\ TakeInput("exit")
  /\ LeaveLoop("exit")
  /\ UNCHANGED <<renderer_vars, shell_vars, cancelled_stream_state, resuming, user_message,
                 messages, response, outcome, source, partial_at_cancel, hist_before,
                 snap_before, n_exchanges, wire_vars, io_vars, notice>>

\* execute_shell_command("clear"): the terminal is cleared, nothing else
ShellClearScreen ==
  /\ mode = "shell"
  /\ TakeInput("clear")
  /\ OnlyNotice("none")
  /\ UNCHANGED context_vars

\* any other line typed in shell mode is run as a command
ShellRun(command) ==
  /\ mode = "shell"
  /\ TakeInput(command)
  /\ pc' = "shell"
  /\ UNCHANGED <<renderer_vars, context_vars, cancelled_stream_state, resuming, user_message,
                 messages, response, outcome, source, partial_at_cancel, hist_before,
                 snap_before, n_exchanges, wire_vars, io_vars, exit_cause, notice>>

\* the command is over: how, and what add_shell_context is given (nothing
\* when it was interrupted); the clock reading is the number of the input
ShellReturn(recorded, output) ==
  /\ pc = "shell"
  /\ pc' = "prompt"
  /\ IF recorded
     THEN add_shell_context(last_input.text, output, n_inputs)
     ELSE UNCHANGED shell_vars
  /\ UNCHANGED <<renderer_vars, conversation_vars, cancelled_stream_state, resuming,
                 user_message, messages, response, outcome, source, partial_at_cancel,
                 hist_before, snap_before, n_exchanges, wire_vars, io_vars, loop_vars>>

\* _handle_regular_command ran the command to its end
ShellDone == ShellReturn(TRUE, <<"a">>)

\* an exception inside execute_shell_command's try
ShellFail == ShellReturn(TRUE, ErrorText)

\* KeyboardInterrupt inside execute_shell_command's try
ShellInterrupt == ShellReturn(FALSE, <<>>)

\* KeyboardInterrupt out of session.prompt(): goodbye, break
PromptInterrupt ==
  /\ AtPrompt
  /\ LeaveLoop("prompt_interrupt")
  /\ UNCHANGED <<renderer_vars, shell_vars, cancelled_stream_state, resuming, user_message,
                 messages, response, outcome, source, partial_at_cancel, hist_before,
                 snap_before, n_exchanges, wire_vars, io_vars, mode, notice, last_input,
                 n_inputs>>

\* KeyboardInterrupt raised while an exchange or a command is under way, at a
\* point none of its own handlers covers: before the streaming call's try,
\* inside its except branches (a second Ctrl+C while the cancellation is being
\* drawn), or in the caller after the call returned. stream_ai_response and
\* resume_cancelled_stream catch Exception only, so it reaches run(), which
\* says goodbye and breaks. A resumed stream's handler may or may not have
\* saved its snapshot by then.
InterruptEscapes ==
  /\ Busy
  /\ LeaveLoop("interrupt")
  /\ \/ UNCHANGED cancelled_stream_state
     \/ /\ resuming /\ Streaming
        /\ save_cancelled_state(user_message, full_content, messages)
  /\ UNCHANGED <<renderer_vars, shell_vars, resuming, user_message, messages, response,
                 outcome, source, partial_at_cancel, hist_before, snap_before, n_exchanges,
                 wire_vars, io_vars, mode, notice, last_input, n_inputs>>

\* ------------------------------------------------------------------ initial state
\* LiveMarkdownStreamRenderer.__init__ with max_visible_lines = mvl
RendererInit(mvl) ==
  /\ max_visible_lines = mvl
  /\ rolling_buffer = <<>>
  /\ full_content = <<>>
  /\ current_line = <<>>
  /\ word_count = 0
  /\ fed = <<>>

\* ContextManager.__init__
ContextInit ==
  /\ shell_context = <<>>
  /\ conversation_history = <<>>
  /\ inserted = <<>>
  /\ appended = <<>>
  /\ restored = <<>>
  /\ since_restore = 0

\* StreamingUIManager.__init__ and the loop waiting at its first prompt
SessionInit ==
  /\ cancelled_stream_state = None
  /\ pc = "prompt"
  /\ resuming = FALSE
  /\ user_message = <<>>
  /\ messages = <<>>
  /\ response = <<>>
  /\ outcome = "NONE"
  /\ source = "idle"
  /\ partial_at_cancel = <<>>
  /\ hist_before = <<>>
  /\ snap_before = None
  /\ n_exchanges = 0
  /\ consumed = <<>>
  /\ pending_chunk = <<>>
  /\ mode = "shell"
  /\ exit_cause = "none"
  /\ notice = "none"
  /\ last_input = [text |-> "none", mode |-> "shell"]
  /\ n_inputs = 0
  /\ last_io = [op |-> "none", failed |-> FALSE, tick |-> 0]
  /\ saved = <<>>

\* ------------------------------------------------------------------ the Rolling Buffer alone
Alphabet == {"a", SP, NL}

Fragments == UNION {[1..k -> Alphabet] : k \in 0..MaxFragmentLen}

BufferInit ==
  /\ \E mvl \in 1..MaxVisibleLines : RendererInit(mvl)
  /\ ContextInit
  /\ history_file = NoFile
  /\ SessionInit

BufferReset ==
  /\ reset
  /\ UNCHANGED <<context_vars, session_vars>>

BufferAddChunk ==
  \E chunk \in Fragments :
    /\ Len(fed) < MaxFragments
    /\ Len(full_content) + Len(chunk) <= MaxBufferLen
    /\ add_chunk(chunk)
    /\ UNCHANGED <<context_vars, session_vars>>

BufferNext == BufferReset \/ BufferAddChunk

SpecBuffer == BufferInit /\ [][BufferNext]_vars

\* C1: on a freshly reset buffer, full_content after the k-th add_chunk is the
\* concatenation of the first k fragments in arrival order, for every k.
C1_FullContentIsConcatenation == full_content = Concat(fed)

C1_Witness ==
  /\ Len(fed) = 3
  /\ fed[1] # <<>> /\ fed[2] # <<>> /\ fed[1] # fed[2]
  /\ full_content = fed[1] \o fed[2] \o fed[3]

\* the number of lines of a text: one more than its line breaks
NumLines(text) == Count(text, NL) + 1

\* C2: with max_visible_lines >= 1, after any reset / add_chunk sequence the
\* window rolling_buffer holds at most max_visible_lines completed lines and the
\* text of get_streaming_content has at most max_visible_lines completed lines
\* plus the one trailing partial line.
C2_WindowBounded ==
  /\ Len(rolling_buffer) <= max_visible_lines
  /\ NumLines(get_streaming_content) <= max_visible_lines + 1

C2_Witness ==
  /\ Count(full_content, NL) > max_visible_lines
  /\ Len(rolling_buffer) = max_visible_lines
  /\ current_line # <<>>

\* ------------------------------------------------------------------ the shell context alone
\* the k-th command typed is command k; its output is one character
ShellInit ==
  /\ RendererInit(DEFAULT_MAX_VISIBLE_LINES)
  /\ ContextInit
  /\ history_file = NoFile
  /\ SessionInit

ShellAdd ==
  \E now \in 1..MaxEpoch :
    /\ Len(inserted) < MAX_SHELL_CONTEXT + MaxShellExtra
    /\ add_shell_context(Len(inserted) + 1, <<"a">>, now)
    /\ UNCHANGED <<renderer_vars, session_vars, conversation_vars>>

ShellClear ==
  /\ shell_context # <<>>
  /\ clear_context
  /\ UNCHANGED <<renderer_vars, session_vars, conversation_vars>>

ShellNext == ShellAdd \/ ShellClear

SpecShell == ShellInit /\ [][ShellNext]_vars

\* C7: the shell context never holds more than MAX_SHELL_CONTEXT entries; after
\* MAX_SHELL_CONTEXT + k insertions (k >= 1) it holds exactly the
\* MAX_SHELL_CONTEXT most recently inserted entries in insertion order,
\* whatever their epoch_time values.
C7_ShellContextFifo ==
  /\ Len(shell_context) <= MAX_SHELL_CONTEXT
  /\ LET n == Len(inserted)
         first == IF n > MAX_SHELL_CONTEXT THEN n - MAX_SHELL_CONTEXT + 1 ELSE 1
     IN /\ Len(shell_context) = n - first + 1
        /\ \A i \in 1..Len(shell_context) : shell_context[i] = inserted[first + i - 1]

\* two entries were evicted, and the first evicted entry carries a later
\* epoch_time than an entry that stayed
C7_Witness ==
  /\ Len(inserted) = MAX_SHELL_CONTEXT + 2
  /\ Len(shell_context) = MAX_SHELL_CONTEXT
  /\ \E i \in 1..Len(shell_context) : inserted[1].epoch_time > shell_context[i].epoch_time

\* ------------------------------------------------------------------ the AI context of the shell entries
\* an output of n characters, no two of its thirds alike
OutputOfLen(n) ==
  [i \in 1..n |-> IF i <= OTHER_OUTPUT_LIMIT THEN "a"
                  ELSE IF i <= LATEST_OUTPUT_LIMIT THEN "b" ELSE "c"]

Outputs ==
  {OutputOfLen(n) : n \in {0, OTHER_OUTPUT_LIMIT, OTHER_OUTPUT_LIMIT + 1,
                           LATEST_OUTPUT_LIMIT, LATEST_OUTPUT_LIMIT + 1}}

ContextAdd ==
  \E now \in 1..MaxEpoch, output \in Outputs :
    /\ Len(inserted) < MaxRendered
    /\ add_shell_context(Len(inserted) + 1, output, now)
    /\ UNCHANGED <<renderer_vars, session_vars, conversation_vars>>

ContextNext == ContextAdd \/ ShellClear

SpecContext == ShellInit /\ [][ContextNext]_vars

\* where the block of the entry ranked r (1-based) starts in the parts
RankStart(parts, r) ==
  CHOOSE p \in 1..Len(parts) : parts[p][1] = ">>> " /\ parts[p][3] = r

\* the output rendered for the entry ranked r: what follows "Output: ", or
\* nothing when the block has no output line
RenderedOutput(parts, r) ==
  LET p == RankStart(parts, r)
  IN IF parts[p + 2][1] = "Output: " THEN Tail(parts[p + 2]) ELSE <<>>

\* the stored entry the block ranked r was rendered from
RankedEntry(parts, r) ==
  LET command == parts[RankStart(parts, r) + 1][2]
  IN CHOOSE e \in {shell_context[i] : i \in 1..Len(shell_context)} : e.command = command

\* C9: build_context_for_ai returns the empty string when the shell context is
\* empty; otherwise the rendered output of the top-ranked entry carries at most
\* 800 characters of the original output, those of the entries ranked 2 and 3
\* at most 400, and an output at or below its limit is rendered unchanged.
C9_ContextTruncation ==
  /\ shell_context = <<>> => build_context_for_ai = <<>>
  /\ shell_context # <<>> =>
       /\ build_context_for_ai # <<>>
       /\ \A r \in 1..(IF Len(shell_context) < 3 THEN Len(shell_context) ELSE 3) :
            LET e == RankedEntry(context_parts, r)
                rendered == RenderedOutput(context_parts, r)
                limit == IF r = 1 THEN 800 ELSE 400
            IN /\ Cardinality({i \in 1..Len(shell_context) :
                                shell_context[i].epoch_time > e.epoch_time}) < r
               /\ Len(e.output) <= limit => rendered = e.output
               /\ Len(e.output) > limit =>
                    rendered = SubSeq(e.output, 1, limit) \o <<"... (truncated)">>

\* three entries ranked against their insertion order: the first cut at 800,
\* the second cut at 400, the third rendered whole
C9_Witness ==
  /\ Len(shell_context) = 3
  /\ shell_context[1].epoch_time > shell_context[3].epoch_time
  /\ Len(RankedEntry(context_parts, 1).output) = 801
  /\ Len(RenderedOutput(context_parts, 1)) = 801
  /\ Len(RankedEntry(context_parts, 2).output) = 401
  /\ Len(RenderedOutput(context_parts, 2)) = 401
  /\ Len(RankedEntry(context_parts, 3).output) = 400
  /\ RenderedOutput(context_parts, 3) = RankedEntry(context_parts, 3).output

\* ------------------------------------------------------------------ the conversation history alone
NumTok == <<"1", "2", "3", "4", "5", "6", "7", "8", "9", "10", "11", "12", "13", "14", "15", "16">>

\* the k-th prompt and the k-th answer
Question(k) == <<"q", NumTok[k]>>
Answer(k) == <<"r", NumTok[k]>>

\* first run: no history file yet; HybridShell.__init__ has called load_history
HistoryInit == ShellInit

HistoryAdd ==
  /\ n_exchanges < MaxTurns
  /\ n_exchanges' = n_exchanges + 1
  /\ add_conversation(Question(n_exchanges + 1), Answer(n_exchanges + 1))
  /\ UNCHANGED <<renderer_vars, shell_vars, cancelled_stream_state, pc, resuming, user_message,
                 messages, response, outcome, source, partial_at_cancel, hist_before,
                 snap_before, wire_vars, loop_vars, io_vars>>

HistoryClearConversation ==
  /\ clear_conversation
  /\ UNCHANGED <<renderer_vars, shell_vars, session_vars>>

HistoryClearAll ==
  /\ clear_all
  /\ UNCHANGED <<renderer_vars, session_vars>>

HistorySave ==
  \E result \in {"ok", "not_opened", "partial"} :
    /\ save_history(result)
    /\ UNCHANGED <<renderer_vars, shell_vars, session_vars>>

HistoryLoad ==
  \E readable \in BOOLEAN :
    /\ load_history(readable)
    /\ UNCHANGED <<renderer_vars, shell_vars, session_vars>>

HistoryNext ==
  \/ HistoryAdd
  \/ HistoryClearConversation
  \/ HistoryClearAll
  \/ HistorySave
  \/ HistoryLoad

SpecHistory == HistoryInit /\ [][HistoryNext]_vars

\* the last n elements of seq, all of it when it has no more than n
LastN(seq, n) == IF Len(seq) <= n THEN seq ELSE SubSeq(seq, Len(seq) - n + 1, Len(seq))

\* C8 as stated: after any sequence of add_conversation, clear_conversation,
\* clear_all, save_history and load_history the history holds at most
\* MAX_CONVERSATION_HISTORY messages, and those are the most recently appended
\* ones in append order.
C8_Original ==
  /\ Len(conversation_history) <= MAX_CONVERSATION_HISTORY
  /\ conversation_history = LastN(appended, MAX_CONVERSATION_HISTORY)

\* C8 amended: the history holds at most MAX_CONVERSATION_HISTORY messages, and
\* those are the last ones of what the most recent load_history restored
\* (nothing if the history was cleared since) followed by the messages appended
\* since then, in append order.
C8_HistoryBounded ==
  /\ Len(conversation_history) <= MAX_CONVERSATION_HISTORY
  /\ conversation_history =
       LastN(restored \o LastN(appended, since_restore), MAX_CONVERSATION_HISTORY)

\* a restored history was extended past the cap and trimmed
C8_Witness ==
  /\ restored # <<>>
  /\ since_restore > 0
  /\ Len(restored) + since_restore > MAX_CONVERSATION_HISTORY
  /\ Len(conversation_history) = MAX_CONVERSATION_HISTORY

\* ------------------------------------------------------------------ the streaming session
SessionChunks == {<<"a">>, <<NL>>}

SessionStart ==
  /\ n_exchanges < MaxExchanges
  /\ StartExchange(Question(n_exchanges + 1))
  /\ UNCHANGED <<wire_vars, loop_vars, io_vars>>

SessionResume ==
  /\ n_exchanges < MaxExchanges
  /\ StartResume
  /\ UNCHANGED <<wire_vars, loop_vars, io_vars>>

SessionPull ==
  \E chunk \in SessionChunks :
    /\ Len(full_content) < MaxStreamLen
    /\ PullChunk(chunk)

SessionNext ==
  \/ SessionStart
  \/ SessionResume
  \/ SessionPull
  \/ SourceFault
  \/ StreamEnd
  \/ Interrupt
  \/ DisplayFault

SpecSession == ShellInit /\ [][SessionNext]_vars

\* C3: when an exchange was cancelled while streaming and resume is invoked,
\* full_content at the moment the resumed stream starts, before any new
\* fragment, is exactly the partial content at the cancellation, and the
\* trailing partial line is empty.
C3_ResumeSeedsPartial ==
  (resuming /\ pc = "connecting") =>
    /\ full_content = partial_at_cancel
    /\ current_line = <<>>

\* the cancelled text ended in the middle of a line
C3_Witness ==
  /\ resuming /\ pc = "connecting"
  /\ partial_at_cancel # <<>>
  /\ partial_at_cancel[Len(partial_at_cancel)] # NL
  /\ full_content = partial_at_cancel

\* C4 as stated: the snapshot is cleared before the resumed stream starts, so
\* has_cancelled_stream() is false from the moment the resumed stream begins
\* pulling fragments until it ends or is cancelled.
C4_Original == (resuming /\ Streaming) => ~has_cancelled_stream

\* C4 amended: the snapshot is cleared only when the resumed stream completes:
\* has_cancelled_stream() stays true, the snapshot unchanged, from the moment
\* the resumed stream begins pulling fragments until it ends, and is false once
\* the resumed stream has ended in COMPLETE.
C4_SnapshotKeptUntilComplete ==
  /\ (resuming /\ Streaming) =>
       (has_cancelled_stream /\ cancelled_stream_state = snap_before)
  /\ (resuming /\ pc = "prompt" /\ outcome = "COMPLETE") => ~has_cancelled_stream

C4_Witness ==
  /\ resuming /\ pc = "streaming"
  /\ fed # <<>>
  /\ has_cancelled_stream

\* C5 as stated: whenever any exchange, new or resumed, reaches COMPLETE,
\* has_cancelled_stream() is false immediately afterwards.
C5_Original == (pc = "prompt" /\ outcome = "COMPLETE") => ~has_cancelled_stream

\* C5 amended: whenever a resumed exchange reaches COMPLETE,
\* has_cancelled_stream() is false immediately afterwards; a new exchange that
\* reaches COMPLETE does not clear the snapshot: if one existed before the
\* exchange, has_cancelled_stream() is still true afterwards.
C5_CompleteAndSnapshot ==
  (pc = "prompt" /\ outcome = "COMPLETE") =>
    /\ resuming => ~has_cancelled_stream
    /\ (~resuming /\ snap_before # None) => has_cancelled_stream

\* a resumed exchange completed after pulling fragments
C5_Witness ==
  /\ pc = "prompt" /\ outcome = "COMPLETE" /\ resuming
  /\ fed # <<>>
  /\ snap_before # None
  /\ ~has_cancelled_stream

\* C6: at most one snapshot exists and the last cancellation wins: right after
\* the cancellation of a new exchange has_cancelled_stream() is true and the
\* snapshot's user_message, partial_content and messages are those of the
\* exchange just cancelled, nothing of an earlier snapshot being kept.
C6_LastCancelledWins ==
  (pc = "prompt" /\ outcome = "CANCELLED" /\ ~resuming) =>
    /\ has_cancelled_stream
    /\ cancelled_stream_state =
         [user_message |-> user_message, partial_content |-> partial_at_cancel,
          messages |-> messages, word_count |-> get_word_count]

\* a second cancellation, over a snapshot that differs in every field
C6_Witness ==
  /\ pc = "prompt" /\ outcome = "CANCELLED" /\ ~resuming
  /\ snap_before # None
  /\ snap_before.user_message # user_message
  /\ snap_before.partial_content # partial_at_cancel
  /\ snap_before.messages # messages
  /\ cancelled_stream_state.user_message = user_message

\* C13: if a resumed stream is itself cancelled, afterwards exactly one
\* snapshot exists, whose partial_content is the previous snapshot's
\* partial_content followed by the concatenation of the fragments ingested
\* during the resumed stream, and whose user_message and messages are those of
\* the previous snapshot.
C13_ResumeCancelAccumulates ==
  (pc = "prompt" /\ outcome = "CANCELLED" /\ resuming) =>
    /\ has_cancelled_stream
    /\ cancelled_stream_state.partial_content = snap_before.partial_content \o Concat(fed)
    /\ cancelled_stream_state.user_message = snap_before.user_message
    /\ cancelled_stream_state.messages = snap_before.messages

\* the resumed stream was cancelled after it had added text to a non-empty
\* partial content
C13_Witness ==
  /\ pc = "prompt" /\ outcome = "CANCELLED" /\ resuming
  /\ snap_before.partial_content # <<>>
  /\ Concat(fed) # <<>>
  /\ Len(cancelled_stream_state.partial_content) > Len(snap_before.partial_content)

\* C10: a network or transport fault (opening the stream, mid-stream, or the
\* timeout) makes the exchange end in ERROR: the result is the error sentinel,
\* the failure text is not ingested as response content, no conversation turn
\* is appended and no snapshot is created.
C10_FaultEndsInError ==
  (pc = "prompt" /\ source = "failed" /\ outcome # "CANCELLED") =>
    /\ outcome = "ERROR"
    /\ StartsWith(response, Cross)
    /\ \A k \in 1..Len(fed) : fed[k] # ErrorText
    /\ conversation_history = hist_before
    /\ cancelled_stream_state \in {snap_before, None}

\* ------------------------------------------------------------------ the chunk source and its lines
TextLine(prefix, body, value) ==
  [empty |-> FALSE, utf8 |-> TRUE, prefix |-> prefix, body |-> body, value |-> value]

\* data: {"choices": [{"delta": {"content": <text>}}]}
ContentFrame(text) ==
  TextLine(TRUE, "json",
           JObject([choices |-> JArray(<< JObject([delta |-> JObject([content |-> JString(text)])]) >>)]))

EmptyLine == [empty |-> TRUE, utf8 |-> TRUE, prefix |-> FALSE, body |-> "", value |-> JNull]
UndecodableLine == [empty |-> FALSE, utf8 |-> FALSE, prefix |-> FALSE, body |-> "", value |-> JNull]
CommentLine == TextLine(FALSE, "", JNull)                        \* ": keep-alive"
DoneFrame == TextLine(TRUE, "[DONE]", JNull)                     \* data: [DONE]
InvalidJsonFrame == TextLine(TRUE, "invalid", JNull)             \* data: {"choices": [
NoChoicesFrame == TextLine(TRUE, "json", JObject([error |-> JString(<<"x">>)]))
EmptyChoicesFrame == TextLine(TRUE, "json", JObject([choices |-> JArray(<<>>)]))
RoleFrame ==                                                     \* the delta carries a role only
  TextLine(TRUE, "json",
           JObject([choices |-> JArray(<< JObject([delta |-> JObject([role |-> JString(<<"assistant">>)])]) >>)]))
NumberFrame == TextLine(TRUE, "json", JNumber)                   \* data: 5
ArrayFrame == TextLine(TRUE, "json", JArray(<<>>))               \* data: []
NullDeltaFrame ==                                                \* "delta": null
  TextLine(TRUE, "json", JObject([choices |-> JArray(<< JObject([delta |-> JNull]) >>)]))

Lines ==
  {ContentFrame(<<"a">>), ContentFrame(<<"b">>), EmptyLine, UndecodableLine, CommentLine,
   DoneFrame, InvalidJsonFrame, NoChoicesFrame, EmptyChoicesFrame, RoleFrame, NumberFrame,
   ArrayFrame, NullDeltaFrame}

WireStart ==
  /\ n_exchanges < MaxWireExchanges
  /\ StartExchange(Question(n_exchanges + 1))
  /\ consumed' = <<>>
  /\ UNCHANGED <<pending_chunk, loop_vars, io_vars>>

WireLine ==
  \E line \in Lines :
    /\ Len(consumed) < MaxWireLen
    /\ PullLine(line)

WireNext == WireStart \/ WireLine \/ StreamEnd

SpecWire == ShellInit /\ [][WireNext]_vars

\* the frame is an object with a choices[0].delta.content path holding text
HasContentPath(line) ==
  /\ ~line.empty /\ line.utf8 /\ line.prefix /\ line.body = "json"
  /\ line.value.type = "object"
  /\ "choices" \in DOMAIN line.value.fields
  /\ line.value.fields["choices"].type = "array"
  /\ line.value.fields["choices"].items # <<>>
  /\ LET first == line.value.fields["choices"].items[1]
     IN /\ first.type = "object"
        /\ "delta" \in DOMAIN first.fields
        /\ first.fields["delta"].type = "object"
        /\ "content" \in DOMAIN first.fields["delta"].fields
        /\ first.fields["delta"].fields["content"].type = "string"

IsTerminator(line) == ~line.empty /\ line.utf8 /\ line.prefix /\ line.body = "[DONE]"

\* the fragments the well-formed frames among the lines carry, in order, up to
\* the stream terminator
RECURSIVE FragmentsOf(_)
FragmentsOf(lines) ==
  IF lines = <<>> THEN <<>>
  ELSE IF IsTerminator(Head(lines)) THEN <<>>
  ELSE IF HasContentPath(Head(lines))
       THEN <<Head(lines).value.fields["choices"].items[1].fields["delta"].fields["content"].text>>
            \o FragmentsOf(Tail(lines))
       ELSE FragmentsOf(Tail(lines))

\* C11: a stream frame that does not parse as the expected wire envelope (no
\* 'data: ' prefix, invalid JSON, or valid JSON that is not an object with a
\* choices[0].delta.content path) is skipped silently: it yields no fragment,
\* does not end or fail the stream, and every well-formed frame after it is
\* still delivered in order. So, the lines read being text, the fragments
\* ingested are exactly those of the well-formed frames read, and the source
\* has not failed.
C11_MalformedFramesSkipped ==
  (n_exchanges > 0 /\ \A i \in 1..Len(consumed) : consumed[i].utf8) =>
    /\ source # "failed"
    /\ fed = FragmentsOf(consumed)

\* ------------------------------------------------------------------ save_history and load_history
PersistAdd ==
  /\ n_exchanges < MaxPersistTurns
  /\ n_exchanges' = n_exchanges + 1
  /\ add_conversation(Question(n_exchanges + 1), Answer(n_exchanges + 1))
  /\ UNCHANGED <<renderer_vars, shell_vars, cancelled_stream_state, pc, resuming, user_message,
                 messages, response, outcome, source, partial_at_cancel, hist_before,
                 snap_before, wire_vars, loop_vars, io_vars>>

PersistShellAdd ==
  /\ Len(inserted) < MaxPersistShell
  /\ add_shell_context(Len(inserted) + 1, <<"a">>, 1)
  /\ UNCHANGED <<renderer_vars, session_vars, conversation_vars>>

\* the call's outcome is recorded: it failed when its except branch ran
PersistSave ==
  \E result \in {"ok", "not_opened", "partial"} :
    /\ save_history(result)
    /\ last_io' = [op |-> "save", failed |-> result # "ok", tick |-> 1 - last_io.tick]
    /\ saved' = IF result = "ok" THEN conversation_history ELSE saved
    /\ UNCHANGED <<renderer_vars, shell_vars, cancelled_stream_state, pc, resuming, user_message,
                   messages, response, outcome, source, partial_at_cancel, hist_before,
                   snap_before, n_exchanges, wire_vars, loop_vars>>

PersistLoad ==
  \E readable \in BOOLEAN :
    /\ load_history(readable)
    /\ last_io' = [op |-> "load",
                   failed |-> history_file.exists /\ ~(readable /\ history_file.valid),
                   tick |-> 1 - last_io.tick]
    /\ UNCHANGED <<renderer_vars, shell_vars, cancelled_stream_state, pc, resuming, user_message,
                   messages, response, outcome, source, partial_at_cancel, hist_before,
                   snap_before, n_exchanges, wire_vars, loop_vars, saved>>

PersistNext == PersistAdd \/ PersistShellAdd \/ PersistSave \/ PersistLoad

SpecPersist == ShellInit /\ [][PersistNext]_vars

\* C14: save_history and load_history return to their caller whatever fails;
\* after a failed load the conversation history is empty; a load that follows a
\* successful save restores exactly the saved conversation sequence; neither
\* operation changes the shell context, and save_history leaves the
\* conversation as it is.
C14_PersistenceContained ==
  [][(last_io'.tick # last_io.tick) =>
       /\ shell_context' = shell_context
       /\ pc' = pc
       /\ last_io'.op = "save" => conversation_history' = conversation_history
       /\ (last_io'.op = "load" /\ last_io'.failed) => conversation_history' = <<>>
       /\ (last_io'.op = "load" /\ ~last_io'.failed /\ history_file.exists)
            => conversation_history' = saved]_vars

\* a load brought back the conversation saved before the last turn was added,
\* with a shell entry in the context
C14_Witness ==
  /\ last_io.op = "load" /\ ~last_io.failed
  /\ saved # <<>>
  /\ conversation_history = saved
  /\ Len(appended) > Len(saved)
  /\ since_restore = 0
  /\ shell_context # <<>>

\* ------------------------------------------------------------------ the interactive loop
AITexts == {"q", "exit"}

LoopAsk == \E text \in AITexts : n_inputs < MaxInputs /\ AIAsk(text)

LoopShellRun == n_inputs < MaxInputs /\ ShellRun("ls")

LoopPull == Len(fed) < MaxLoopFragments /\ PullChunk(<<"a">>)

LoopCommand ==
  /\ n_inputs < MaxInputs
  /\ \/ KeyClear
     \/ KeyResume
     \/ AIClear0
     \/ AIClear
     \/ AIContext
     \/ AIResume
     \/ AICancelState
     \/ ShellExit
     \/ ShellClearScreen

LoopNext ==
  \/ KeySwitchToAI
  \/ KeySwitchToShell
  \/ LoopCommand
  \/ LoopAsk
  \/ LoopShellRun
  \/ ShellDone
  \/ ShellFail
  \/ ShellInterrupt
  \/ LoopPull
  \/ SourceFault
  \/ StreamEnd
  \/ Interrupt
  \/ DisplayFault
  \/ PromptInterrupt
  \/ InterruptEscapes

SpecLoop == ShellInit /\ [][LoopNext]_vars

\* the exchange under way runs on to its end and the command under way
\* returns, unless an interrupt comes first
SpecLoopFair == SpecLoop /\ WF_vars(StreamEnd) /\ WF_vars(ShellDone)

\* the input just taken asks for a resume: the "resume" command of AI mode or
\* the Alt+Z key binding
ResumeAsked ==
  /\ n_inputs' # n_inputs
  /\ \/ last_input'.text = "Alt+Z"
     \/ last_input'.text = "resume" /\ last_input'.mode = "ai"

\* C12: invoking resume when no snapshot exists is a reported no-op: the notice
\* is shown, no chunk source is opened, the rolling buffer is not reset or
\* modified, and conversation history, shell context and the absent snapshot
\* are unchanged.
C12_ResumeWithoutSnapshot ==
  [][(ResumeAsked /\ ~has_cancelled_stream) =>
       /\ notice' = "no_resume"
       /\ UNCHANGED <<source, n_exchanges, pc>>
       /\ UNCHANGED <<max_visible_lines, rolling_buffer, full_content, current_line, word_count>>
       /\ UNCHANGED <<conversation_history, shell_context>>
       /\ cancelled_stream_state' = None]_vars

\* the resume was refused while the buffer still held the text of a completed
\* exchange that is on record in the conversation
C12_Witness ==
  /\ notice = "no_resume"
  /\ last_input.text \in {"resume", "Alt+Z"}
  /\ ~has_cancelled_stream
  /\ full_content # <<>>
  /\ conversation_history # <<>>

\* C15: the interactive loop stays live after any single exchange: whenever an
\* AI exchange or a shell command is under way, however it ends, the loop
\* comes back to the prompt; and the loop terminates only on 'exit' or on an
\* interrupt received while waiting at the prompt.
C15_LoopStaysLive ==
  /\ [](pc = "exited" => exit_cause \in {"exit", "prompt_interrupt"})
  /\ [](Busy => <>(pc = "prompt"))

\* C16: the AI-mode 'clear' command clears the cancelled stream state: once
\* 'clear' has been handled has_cancelled_stream() is false, so that a
\* following 'resume' finds nothing to resume.
C16_ClearDropsSnapshot ==
  (last_input.text = "clear" /\ last_input.mode = "ai") => ~has_cancelled_stream

\* C17: typing 'exit' at the prompt terminates the interactive loop in both
\* modes, without starting an AI exchange or executing a shell command.
C17_ExitTerminates ==
  last_input.text = "exit" =>
    /\ pc = "exited"
    /\ exit_cause = "exit"
    /\ user_message # <<"exit">>

\* C18: at most one stream is ingested at any time: a new or resumed stream
\* starts only from the prompt, never while another stream is connecting or
\* streaming (or a command is running), whatever asks for it: a typed line,
\* the resume command or the resume key binding.
C18_OneStreamAtATime ==
  [][(n_exchanges' # n_exchanges) =>
       /\ pc = "prompt"
       /\ ~Busy
       /\ pc' = "connecting"]_vars

\* a stream started by the resume key binding, after the exchange it resumes
\* had ended
C18_Witness ==
  /\ Streaming
  /\ resuming
  /\ n_exchanges = 2
  /\ last_input.text = "Alt+Z"

\* ------------------------------------------------------------------ the Rolling Buffer, seeded as on resume
\* the partial content of a snapshot is the full_content of an earlier stream
BufferSeed ==
  \E partial_content \in Fragments :
    /\ SeedRenderer(partial_content)
    /\ UNCHANGED <<context_vars, session_vars>>

SeededNext == BufferReset \/ BufferAddChunk \/ BufferSeed

SpecSeeded == BufferInit /\ [][SeededNext]_vars

\* the completed lines of a text: all the segments between line breaks but the last
CompletedLines(text) == SubSeq(Split(text, NL), 1, Count(text, NL))

\* the text after the last line break
TrailingLine(text) == Split(text, NL)[Count(text, NL) + 1]

\* the window and the partial line as derived from a text
DerivedFrom(text) ==
  /\ rolling_buffer = LastN(CompletedLines(text), max_visible_lines)
  /\ current_line = TrailingLine(text)

\* C19 as stated: in every state reached during ingestion of a new or a resumed
\* exchange, the visible lines are the last min(max_visible_lines, c) of the c
\* completed lines of full_content split on line breaks, and the trailing
\* partial line is the text of full_content after its last line break.
C19_Original == DerivedFrom(full_content)

\* C19 amended: the visible lines and the trailing partial line are so derived
\* from the text ingested since the buffer was last reset or seeded, one empty
\* visible line per consecutive line break; in a new exchange that text is
\* full_content, in a resumed one it is full_content without the seeded
\* partial content, which contributes neither visible lines nor a partial line.
C19_WindowOfIngestedText ==
  /\ DerivedFrom(Concat(fed))
  /\ \E seed \in Fragments : full_content = seed \o Concat(fed)

\* a seeded buffer that has rolled: more line breaks ingested than the window
\* holds, two of them in a row, and a partial line in progress
C19_Witness ==
  /\ full_content # Concat(fed)
  /\ Count(Concat(fed), NL) > max_visible_lines
  /\ rolling_buffer[Len(rolling_buffer)] = <<>>
  /\ current_line # <<>>

\* C20: after reset, after every completed add_chunk, and after the buffer is
\* seeded on resume, word_count is the number of whitespace-separated words of
\* full_content (zero after reset).
C20_WordCountTracksContent ==
  /\ word_count = WordCount(full_content)
  /\ full_content = <<>> => word_count = 0

\* a seeded buffer whose seed and whose ingested fragment both hold a word
C20_Witness ==
  /\ fed # <<>>
  /\ full_content # Concat(fed)
  /\ WordCount(Concat(fed)) > 0
  /\ word_count > WordCount(Concat(fed))

\* ------------------------------------------------------------------ the live view
Placeholder == <<ConnectingText, Cursor>>

\* the lines on display hold nothing but whitespace: no partial line, and every
\* visible line empty or blank
NothingToShow ==
  /\ current_line = <<>>
  /\ \A i \in 1..Len(rolling_buffer) :
       \A j \in 1..Len(rolling_buffer[i]) : rolling_buffer[i][j] \in {SP, NL}

\* C21 as stated: get_streaming_content returns the placeholder if and only if
\* full_content is empty; whenever the buffer is non-empty it returns the
\* visible lines joined by line breaks followed by the trailing line suffixed
\* with the cursor glyph.
C21_Original ==
  /\ get_streaming_content = Placeholder <=> full_content = <<>>
  /\ full_content # <<>> =>
       get_streaming_content = Join(Append(rolling_buffer, current_line \o <<Cursor>>), NL)

\* C21 amended: get_streaming_content returns the placeholder if and only if
\* there is nothing to show (no partial line, and every visible line empty or
\* blank), which is so for an empty buffer; otherwise it returns the last
\* max_visible_lines of the visible lines followed, when the trailing line is
\* not empty, by that line suffixed with the cursor glyph, joined by line
\* breaks.
C21_PlaceholderIffNothingToShow ==
  /\ get_streaming_content = Placeholder <=> NothingToShow
  /\ full_content = <<>> => get_streaming_content = Placeholder
  /\ ~NothingToShow =>
       get_streaming_content =
         Join(LastN(rolling_buffer
                    \o (IF current_line = <<>> THEN <<>> ELSE <<current_line \o <<Cursor>>>>),
                    max_visible_lines), NL)

\* text has arrived, a blank line of it is on display, and the placeholder is
\* what the view shows
C21_Witness ==
  /\ full_content # <<>>
  /\ rolling_buffer # <<>>
  /\ \E i \in 1..Len(rolling_buffer) : rolling_buffer[i] # <<>>
  /\ get_streaming_content = Placeholder

\* ------------------------------------------------------------------ the exchange, statement by statement
StepPull ==
  \E chunk \in SessionChunks :
    /\ Len(full_content) < MaxStreamLen
    /\ AddChunkBegin(chunk)

StepsNext ==
  \/ SessionStart
  \/ SessionResume
  \/ StepPull
  \/ AddChunkFinish
  \/ StreamEnd
  \/ SessionInterrupted
  \/ CallerFiles
  \/ DisplayFault

SpecSteps == ShellInit /\ [][StepsNext]_vars

\* the snapshot holds the text accumulated when the interrupt arrived
SnapshotOfInterrupt ==
  /\ has_cancelled_stream
  /\ cancelled_stream_state.partial_content = partial_at_cancel
  /\ partial_at_cancel = full_content

\* the value handed back is the sentinel of the exchange's kind
ReturnedSentinel ==
  response = (IF resuming THEN ResumeCancelledResponse ELSE CancelledResponse)

\* C22 as stated: in the state where the streaming call has returned the
\* cancellation sentinel, of a new or of a resumed exchange, a snapshot
\* already exists and its partial content is full_content at the moment of the
\* interruption; the value returned is the sentinel.
C22_Original ==
  pc = "returned" => SnapshotOfInterrupt /\ ReturnedSentinel

\* C22 amended: an interrupted streaming call returns the sentinel, never the
\* text. A resumed stream has saved the snapshot, with full_content at the
\* interruption, when its streaming call returns; a new exchange is saved by
\* the caller after the streaming call returned, so the snapshot is in place
\* when control is back at the prompt, not when the call returns.
C22_SnapshotBeforePrompt ==
  /\ pc = "returned" =>
       /\ ReturnedSentinel
       /\ response # full_content
       /\ resuming => SnapshotOfInterrupt
  /\ (pc = "prompt" /\ outcome = "CANCELLED") => SnapshotOfInterrupt /\ ReturnedSentinel

\* the streaming call of a new exchange has returned its sentinel with text
\* accumulated, and no snapshot exists yet
C22_Witness ==
  /\ pc = "returned"
  /\ ~resuming
  /\ full_content # <<>>
  /\ response = CancelledResponse
  /\ ~has_cancelled_stream

\* ------------------------------------------------------------------ how an exchange ends
\* C23: an exchange, new or resumed, that ends in ERROR leaves the snapshot
\* slot exactly as it was before the exchange started: no snapshot is created
\* and an existing one is neither cleared nor modified.
C23_ErrorLeavesSnapshot ==
  (pc = "prompt" /\ outcome = "ERROR") =>
    /\ cancelled_stream_state = snap_before
    /\ response = (IF resuming THEN ResumeErrorResponse ELSE ErrorResponse)

\* a resumed stream received a fragment and then failed; its snapshot is still there
C23_Witness ==
  /\ pc = "prompt"
  /\ outcome = "ERROR"
  /\ resuming
  /\ fed # <<>>
  /\ has_cancelled_stream
  /\ cancelled_stream_state.partial_content # full_content

\* the user/assistant pair of the exchange that has just ended
TurnOf(um, text) ==
  << [role |-> "user", content |-> um], [role |-> "assistant", content |-> text] >>

\* C24: a turn is appended exactly when an exchange reaches COMPLETE: an
\* exchange, new or resumed, whose chunk source ends naturally appends exactly
\* one user/assistant pair whose assistant content is the complete
\* full_content, whatever the response text, an empty one included; an
\* exchange that ends CANCELLED or in ERROR appends nothing.
C24_TurnExactlyOnComplete ==
  (pc = "prompt" /\ outcome # "NONE") =>
    IF outcome = "COMPLETE"
    THEN conversation_history =
           LastN(hist_before \o TurnOf(user_message, full_content), MAX_CONVERSATION_HISTORY)
    ELSE conversation_history = hist_before

\* C25: once the chunk source has read 'data: [DONE]' it reads no further
\* line and yields no further fragment, and the exchange ends in COMPLETE with
\* the text received before the terminator, as for a natural end of the stream.
C25_DoneEndsStream ==
  /\ \A i \in 1..Len(consumed) :
       IsTerminator(consumed[i]) => i = Len(consumed) /\ source = "done"
  /\ source = "done" =>
       /\ consumed # <<>> /\ IsTerminator(consumed[Len(consumed)])
       /\ fed = FragmentsOf(SubSeq(consumed, 1, Len(consumed) - 1))
       /\ full_content = Concat(fed)
  /\ (source = "done" /\ pc = "prompt") =>
       outcome = "COMPLETE" /\ response = full_content

\* the terminator was read after a fragment, with lines still to spare, and
\* the exchange has ended
C25_Witness ==
  /\ source = "done"
  /\ pc = "prompt"
  /\ fed # <<>>
  /\ Len(consumed) < MaxWireLen
  /\ outcome = "COMPLETE"

\* ------------------------------------------------------------------ the ranking of the shell context
\* outputs below and above the limit of the one-line summaries
RankOutputs == {OutputOfLen(1), OutputOfLen(OLDER_OUTPUT_LIMIT + 1)}

RankAdd ==
  \E now \in 1..MaxEpoch, output \in RankOutputs :
    /\ Len(inserted) < MaxRanked
    /\ add_shell_context(Len(inserted) + 1, output, now)
    /\ UNCHANGED <<renderer_vars, session_vars, conversation_vars>>

RankNext == RankAdd \/ ShellClear

SpecRanking == ShellInit /\ [][RankNext]_vars

\* the parts that name a command: the second line of a full-detail block, or a
\* one-line summary
IsEntryPart(part) == part[1] \in {"Command: ", "["}
PartCommand(part) == IF part[1] = "Command: " THEN part[2] ELSE part[3]

\* the stored entry a part was rendered from
PartEntry(part) ==
  CHOOSE e \in {shell_context[i] : i \in 1..Len(shell_context)} :
    e.command = PartCommand(part)

\* what build_context_for_ai renders of n >= 1 entries; strict says whether the
\* last clause asks for increasing or only for non-decreasing epoch_time
RankingHolds(strict) ==
  LET parts == context_parts
      n == Len(shell_context)
      shown == SelectSeq(parts, IsEntryPart)
      m == IF n < CONTEXT_FOR_AI THEN n ELSE CONTEXT_FOR_AI
      InOrder == \A i, j \in 1..n :
                   i < j => IF strict
                            THEN shell_context[i].epoch_time < shell_context[j].epoch_time
                            ELSE shell_context[i].epoch_time <= shell_context[j].epoch_time
  IN n >= 1 =>
       /\ Len(shown) = m
       /\ \A k \in 1..m : \E i \in 1..n : shell_context[i].command = PartCommand(shown[k])
       /\ \A k, l \in 1..m : k # l => PartCommand(shown[k]) # PartCommand(shown[l])
       /\ \A k \in 1..(m - 1) :
            PartEntry(shown[k]).epoch_time >= PartEntry(shown[k + 1]).epoch_time
       /\ \A i \in 1..n :
            (\A k \in 1..m : shell_context[i].command # PartCommand(shown[k])) =>
              shell_context[i].epoch_time <= PartEntry(shown[m]).epoch_time
       /\ \A k \in 1..m :
            IF k <= PRIORITY_COUNT
            THEN /\ shown[k][1] = "Command: "
                 /\ RankStart(parts, k) + 1 \in 1..Len(parts)
                 /\ parts[RankStart(parts, k) + 1] = shown[k]
                 /\ parts[RankStart(parts, k)][2] = (IF k = 1 THEN "LATEST" ELSE "#")
                 /\ RenderedOutput(parts, k) = PartEntry(shown[k]).output
            ELSE LET e == PartEntry(shown[k])
                     cut == IF Len(e.output) < OLDER_OUTPUT_LIMIT THEN Len(e.output)
                            ELSE OLDER_OUTPUT_LIMIT
                 IN shown[k] = <<"[", e.timestamp, e.command, "->">>
                               \o SubSeq(e.output, 1, cut) \o <<"...">>
       /\ InOrder => PartCommand(shown[1]) = shell_context[n].command

\* C26 as stated: with n >= 1 shell entries build_context_for_ai renders exactly
\* min(n, CONTEXT_FOR_AI) entries, in non-increasing epoch_time order, the
\* first three in full detail and the rest as one-line summaries with the
\* output cut to 100 characters; when the epoch_time values are non-decreasing
\* in insertion order, the entry rendered first (LATEST) is the most recently
\* inserted one.
C26_Original == RankingHolds(FALSE)

\* C26 amended: the same, the last clause for epoch_time values that strictly
\* increase in insertion order; among entries that share the greatest
\* epoch_time the one inserted first is rendered as LATEST.
C26_RankingByEpoch ==
  /\ RankingHolds(TRUE)
  /\ shell_context # <<>> =>
       LET first == PartEntry(SelectSeq(context_parts, IsEntryPart)[1])
           i0 == CHOOSE i \in 1..Len(shell_context) : shell_context[i] = first
       IN \A j \in 1..Len(shell_context) :
            /\ shell_context[j].epoch_time <= first.epoch_time
            /\ shell_context[j].epoch_time = first.epoch_time => i0 <= j

\* more entries than are rendered, out of order, with a long output among the
\* one-line summaries
C26_Witness ==
  /\ Len(shell_context) > CONTEXT_FOR_AI
  /\ \E i \in 1..(Len(shell_context) - 1) :
       shell_context[i].epoch_time > shell_context[i + 1].epoch_time
  /\ \E k \in (PRIORITY_COUNT + 1)..CONTEXT_FOR_AI :
       Len(PartEntry(SelectSeq(context_parts, IsEntryPart)[k]).output) > OLDER_OUTPUT_LIMIT

\* ------------------------------------------------------------------ between a cancellation and its resume
ResumeAsk ==
  /\ n_exchanges < MaxResumeExchanges
  /\ StartExchange(Question(n_exchanges + 1))
  /\ UNCHANGED <<wire_vars, loop_vars, io_vars>>

ResumeAgain ==
  /\ n_exchanges < MaxResumeExchanges
  /\ StartResume
  /\ UNCHANGED <<wire_vars, loop_vars, io_vars>>

\* a shell command run at the prompt and recorded
ResumeShellAdd ==
  /\ AtPrompt
  /\ Len(inserted) < MaxResumeShell
  /\ add_shell_context(Len(inserted) + 1, <<"a">>, 1)
  /\ UNCHANGED <<renderer_vars, session_vars, conversation_vars>>

\* "clear" or Alt+C at the prompt
ResumeClearAll ==
  /\ AtPrompt
  /\ shell_context # <<>> \/ conversation_history # <<>>
  /\ clear_all
  /\ UNCHANGED <<renderer_vars, session_vars>>

ResumeNext ==
  \/ ResumeAsk
  \/ ResumeAgain
  \/ ResumeShellAdd
  \/ ResumeClearAll
  \/ LoopPull
  \/ StreamEnd
  \/ Interrupt

SpecResume == ShellInit /\ [][ResumeNext]_vars

\* C27: a resumed stream is opened with exactly the message list stored in the
\* snapshot at cancellation time: the cancellation stores the request of the
\* exchange it interrupts, nothing done at the prompt (shell entries added,
\* turns added or contexts cleared) alters the stored request, the resume
\* sends it as it is, and the turn appended when the resumed stream completes
\* carries the snapshot's user message.
C27_ResumeUsesStoredRequest ==
  [][ /\ (Streaming /\ pc' = "prompt" /\ outcome' = "CANCELLED") =>
           /\ cancelled_stream_state'.messages = messages
           /\ cancelled_stream_state'.user_message = user_message
      /\ (pc = "prompt" /\ pc' = "prompt") => UNCHANGED cancelled_stream_state
      /\ (pc = "prompt" /\ pc' = "connecting" /\ resuming') =>
           /\ messages' = cancelled_stream_state.messages
           /\ user_message' = cancelled_stream_state.user_message
           /\ UNCHANGED cancelled_stream_state
      /\ (resuming /\ Streaming) => UNCHANGED <<messages, user_message>>
      /\ (resuming /\ Streaming /\ outcome' = "COMPLETE" /\ full_content # <<>>) =>
           conversation_history' =
             LastN(conversation_history \o TurnOf(snap_before.user_message, full_content),
                   MAX_CONVERSATION_HISTORY)
    ]_vars

\* a resumed stream is under way with the stored request while the request
\* that would be built now, after the context changed, is another one
C27_Witness ==
  /\ resuming
  /\ pc = "streaming"
  /\ messages = snap_before.messages
  /\ messages # BuildMessages(user_message)
  /\ fed # <<>>

\* ------------------------------------------------------------------ the snapshot's word count
\* C28: whenever a snapshot exists, its recorded word count equals the number
\* of words of its partial content, for an interrupt that arrives at any point
\* of the ingestion, between two statements of add_chunk included.
C28_SnapshotWordCount ==
  has_cancelled_stream =>
    cancelled_stream_state.word_count = WordCount(cancelled_stream_state.partial_content)

\* ------------------------------------------------------------------ whole turns
\* C29: starting from an empty history, the conversation history always
\* consists of whole turns, also after trimming: its length is even, its roles
\* alternate user, assistant starting with user, and each user message is
\* followed by the answer that was appended with it.
C29_WholeTurns ==
  /\ Len(conversation_history) % 2 = 0
  /\ \A i \in 1..Len(conversation_history) :
       conversation_history[i].role = (IF i % 2 = 1 THEN "user" ELSE "assistant")
  /\ \A i \in 1..Len(conversation_history) :
       i % 2 = 1 =>
         \E k \in 1..MaxTurns :
           /\ conversation_history[i].content = Question(k)
           /\ conversation_history[i + 1].content = Answer(k)

\* the history was filled past the cap by add_conversation alone and trimmed:
\* the first turn is gone and the second one now leads
C29_Witness ==
  /\ restored = <<>>
  /\ Len(appended) > MAX_CONVERSATION_HISTORY
  /\ Len(conversation_history) = MAX_CONVERSATION_HISTORY
  /\ conversation_history[1] # appended[1]
  /\ conversation_history[1].role = "user"

\* ------------------------------------------------------------------ an interrupt before the first fragment
\* C30 as stated: a snapshot is created only by interrupting an exchange that
\* has already received a fragment; an interrupt that arrives while the
\* exchange is still connecting leaves no snapshot with an empty partial
\* content.
C30_Original ==
  /\ has_cancelled_stream => cancelled_stream_state.partial_content # <<>>
  /\ (pc = "prompt" /\ outcome = "CANCELLED" /\ ~resuming /\ fed = <<>>) =>
       cancelled_stream_state = snap_before

\* C30 amended: a snapshot is created by interrupting an exchange, whether or
\* not it has received a fragment: an interrupt that arrives while a new
\* exchange is still connecting leaves a snapshot with an empty partial content
\* and a word count of zero, replacing any earlier snapshot, just as an
\* interrupt after a fragment leaves one with the text received so far.
C30_InterruptAlwaysSnapshots ==
  /\ (pc = "prompt" /\ outcome = "CANCELLED" /\ ~resuming /\ fed = <<>>) =>
       /\ has_cancelled_stream
       /\ cancelled_stream_state.partial_content = <<>>
       /\ cancelled_stream_state.word_count = 0
       /\ cancelled_stream_state.user_message = user_message
  /\ (pc = "prompt" /\ outcome = "CANCELLED" /\ fed # <<>>) =>
       /\ has_cancelled_stream
       /\ cancelled_stream_state.partial_content = full_content
       /\ full_content # <<>>

\* a new exchange was interrupted before its first fragment, over an earlier
\* snapshot that held text: the snapshot now holds none
C30_Witness ==
  /\ pc = "prompt"
  /\ outcome = "CANCELLED"
  /\ ~resuming
  /\ fed = <<>>
  /\ snap_before # None
  /\ snap_before.partial_content # <<>>
  /\ has_cancelled_stream
  /\ cancelled_stream_state.partial_content = <<>>

====
